---- MODULE Spec2Model ----
(***************************************************************************)
(* Model of src/scraper.js: the coordinator main() that fans sitemap URLs  *)
(* out to worker threads, the worker's processSitemap/generateArticle      *)
(* retry loops, the in-line URL-to-phrase transformation, the summary step *)
(* and the SIGINT handler.                                                 *)
(*                                                                         *)
(* JavaScript strings are modelled as sequences of one-character strings,  *)
(* so that prefix tests, regular-expression edits and concatenations are   *)
(* computed, not assumed.                                                  *)
(***************************************************************************)
EXTENDS Integers, Sequences, FiniteSets, TLC

(***************************************************************************)
(* Bounds of the model.                                                    *)
(***************************************************************************)
\* Largest value of MAX_WORKERS (./config) the model explores: 1..MaxWorkers.
MaxWorkers == 2

\* Transient failures (of mkdir, a request, a parse, a write, a completion)
\* and delays the environment injects during one run, besides the failing
\* requests for a sitemap that is unreachable and the failing completions of
\* a provider that is down during the whole run.
MaxFaults == 2

(***************************************************************************)
(* Characters and strings.                                                 *)
(***************************************************************************)
LowerAlpha ==
  <<"a","b","c","d","e","f","g","h","i","j","k","l","m",
    "n","o","p","q","r","s","t","u","v","w","x","y","z">>

UpperAlpha ==
  <<"A","B","C","D","E","F","G","H","I","J","K","L","M",
    "N","O","P","Q","R","S","T","U","V","W","X","Y","Z">>

Digits == <<"0","1","2","3","4","5","6","7","8","9">>

\* String.prototype.toUpperCase on one character.
UpperChar(c) ==
  IF \E k \in 1..26 : LowerAlpha[k] = c
  THEN UpperAlpha[CHOOSE k \in 1..26 : LowerAlpha[k] = c]
  ELSE c

\* String.prototype.toLowerCase on one character.
LowerChar(c) ==
  IF \E k \in 1..26 : UpperAlpha[k] = c
  THEN LowerAlpha[CHOOSE k \in 1..26 : UpperAlpha[k] = c]
  ELSE c

toUpperCase(s) == [k \in 1..Len(s) |-> UpperChar(s[k])]

toLowerCase(s) == [k \in 1..Len(s) |-> LowerChar(s[k])]

\* s.slice(from) with a 0-based start, as String.prototype.slice.
slice(s, from) == SubSeq(s, from + 1, Len(s))

\* s.startsWith(p)
startsWith(s, p) == Len(p) <= Len(s) /\ SubSeq(s, 1, Len(p)) = p

\* s.endsWith(p)
endsWith(s, p) ==
  Len(p) <= Len(s) /\ SubSeq(s, Len(s) - Len(p) + 1, Len(s)) = p

\* p occurs in s (an unanchored regular expression of one literal).
Contains(s, p) ==
  \E k \in 0..(Len(s) - Len(p)) : SubSeq(s, k + 1, k + Len(p)) = p

\* s.trim(): the model's only white-space character is the blank.
RECURSIVE trimStart(_)
trimStart(s) ==
  IF s # <<>> /\ Head(s) = " " THEN trimStart(Tail(s)) ELSE s

RECURSIVE trimEnd(_)
trimEnd(s) ==
  IF s # <<>> /\ s[Len(s)] = " " THEN trimEnd(SubSeq(s, 1, Len(s) - 1)) ELSE s

trim(s) == trimEnd(trimStart(s))

\* s.replace(/-/g, ' ')
HyphensToSpaces(s) == [k \in 1..Len(s) |-> IF s[k] = "-" THEN " " ELSE s[k]]

\* s.split(sep) for a one-character separator: always at least one piece.
RECURSIVE split(_, _)
split(s, sep) ==
  IF \E k \in 1..Len(s) : s[k] = sep
  THEN LET k == CHOOSE j \in 1..Len(s) :
                   s[j] = sep /\ \A h \in 1..(j - 1) : s[h] # sep
       IN <<SubSeq(s, 1, k - 1)>> \o split(SubSeq(s, k + 1, Len(s)), sep)
  ELSE <<s>>

\* xs.join(sep)
RECURSIVE join(_, _)
join(xs, sep) ==
  IF xs = <<>> THEN <<>>
  ELSE IF Len(xs) = 1 THEN xs[1]
  ELSE xs[1] \o sep \o join(Tail(xs), sep)

\* String(n) for a non-negative integer.
RECURSIVE NumberToString(_)
NumberToString(n) ==
  IF n < 10 THEN <<Digits[n + 1]>>
  ELSE NumberToString(n \div 10) \o <<Digits[(n % 10) + 1]>>

(***************************************************************************)
(* new URL(url): the model covers the URLs of the form                     *)
(* scheme://host[/path]; a line with no "scheme:" prefix makes new URL     *)
(* throw.  hostname is the lower-cased text between "//" and the next "/". *)
(***************************************************************************)
HTTP == <<"h","t","t","p",":","/","/">>

HTTPS == <<"h","t","t","p","s",":","/","/">>

\* The length of the longest prefix of s holding no "/" (the regular
\* expression [^\/]+ is greedy).
RECURSIVE NonSlashRun(_)
NonSlashRun(s) ==
  IF s = <<>> \/ Head(s) = "/" THEN 0 ELSE 1 + NonSlashRun(Tail(s))

AfterScheme(url) ==
  IF startsWith(toLowerCase(url), HTTPS) THEN slice(url, Len(HTTPS))
  ELSE IF startsWith(toLowerCase(url), HTTP) THEN slice(url, Len(HTTP))
  ELSE <<>>

\* Whether new URL(url) returns (true) or throws (false).
IsValidURL(url) == NonSlashRun(AfterScheme(trim(url))) > 0

\* new URL(url).hostname
hostname(url) ==
  LET rest == AfterScheme(trim(url))
  IN toLowerCase(SubSeq(rest, 1, NonSlashRun(rest)))

(***************************************************************************)
(* The in-line transformation of processSitemap, scraper.js:56-83.         *)
(***************************************************************************)
BlogWords ==
  { <<"b","l","o","g">>,
    <<"b","l","o","g","s">>,
    <<"b","l","o","g","g","i","n","g">>,
    <<"b","l","o","g","-","p","o","s","t">>,
    <<"b","l","o","g","-","p","o","s","t","s">> }

\* /(blog|blogs|blogging|blog-post|blog-posts)/i.test(url): the test is on
\* the whole loc value, host included.
IsBlogUrl(url) == \E b \in BlogWords : Contains(toLowerCase(url), b)

\* url.replace(/^https?:\/\/[^\/]+/, ''): case-sensitive, and only with at
\* least one host character.
withoutDomain(url) ==
  LET after == IF startsWith(url, HTTPS) THEN slice(url, Len(HTTPS))
               ELSE IF startsWith(url, HTTP) THEN slice(url, Len(HTTP))
               ELSE <<>>
  IN IF NonSlashRun(after) > 0 THEN slice(after, NonSlashRun(after)) ELSE url

\* s.replace(/^\/|\/$/g, ''): one leading slash, then one trailing slash of
\* what is left.
StripSlashes(s) ==
  LET a == IF s # <<>> /\ Head(s) = "/" THEN Tail(s) ELSE s
  IN IF a # <<>> /\ a[Len(a)] = "/" THEN SubSeq(a, 1, Len(a) - 1) ELSE a

DotHtml == <<".","h","t","m","l">>

DotPhp == <<".","p","h","p">>

\* s.replace(/\.html$|\.php$/g, '')
StripExtension(s) ==
  IF endsWith(s, DotHtml) THEN SubSeq(s, 1, Len(s) - Len(DotHtml))
  ELSE IF endsWith(s, DotPhp) THEN SubSeq(s, 1, Len(s) - Len(DotPhp))
  ELSE s

withoutSlashes(url) == StripExtension(StripSlashes(withoutDomain(url)))

NonBlank(word) == Len(trim(word)) > 0

\* scraper.js:62-64
words(url) == SelectSeq(split(HyphensToSpaces(withoutSlashes(url)), " "), NonBlank)

NJLower == <<"n","j">>

NJ == <<"N","J">>

\* scraper.js:66-71
transformWord(word, index, ws) ==
  IF index = Len(ws) - 1 /\ toLowerCase(word) = NJLower
  THEN toUpperCase(word)
  ELSE (IF word = <<>> THEN <<>> ELSE <<UpperChar(word[1])>>)
       \o toLowerCase(slice(word, 1))

\* scraper.js:59-74: the text of one loc value.
transform(url) ==
  LET ws == words(url)
  IN join([k \in 1..Len(ws) |-> transformWord(ws[k], k - 1, ws)], <<" ">>)

\* scraper.js:34-37
isValidKeyword(keyword) == Len(SelectSeq(split(keyword, " "), NonBlank)) >= 2

NonEmpty(text) == Len(text) > 0

NotBlogUrl(url) == ~IsBlogUrl(url)

\* The phrases that reach the reduce of scraper.js:76.
transformed(locs) ==
  LET kept == SelectSeq(locs, NotBlogUrl)
  IN SelectSeq([k \in 1..Len(kept) |-> transform(kept[k])], NonEmpty)

IsKeyword(phrase) == endsWith(phrase, NJ) /\ isValidKeyword(phrase)

\* A phrase branch that forgets the test of the suffix.
IsPhraseAlso(phrase) == isValidKeyword(phrase)

IsPhrase(phrase) == ~endsWith(phrase, NJ) /\ isValidKeyword(phrase)

\* scraper.js:56-83: { keywords, phrases } of a parsed sitemap.
classify(locs) ==
  [ keywords |-> SelectSeq(transformed(locs), IsKeyword),
    phrases  |-> SelectSeq(transformed(locs), IsPhrase) ]

(***************************************************************************)
(* Program constants.                                                      *)
(***************************************************************************)
\* const maxRetries = 3 of processSitemap (scraper.js:40) and of
\* generateArticle (scraper.js:114).
maxRetries == 3

generateMaxRetries == 3

\* RATE_LIMIT_DELAY of ./config (scraper.js:10), in clock units.
RATE_LIMIT_DELAY == 1

(***************************************************************************)
(* getTimestamp and the paths built from it.                               *)
(***************************************************************************)
TwoDigits(n) == <<Digits[((n \div 10) % 10) + 1], Digits[(n % 10) + 1]>>

\* new Date().toISOString(), cut to the part that changes during a run:
\* "mm:ss.0Z" of the clock reading t (one clock unit = one second).
toISOString(t) ==
  TwoDigits(t \div 60) \o <<":">> \o TwoDigits(t % 60) \o <<".","0","Z">>

\* .replace(/[:.]/g, '-')
ReplaceColonsAndDots(s) ==
  [k \in 1..Len(s) |-> IF s[k] \in {":", "."} THEN "-" ELSE s[k]]

\* scraper.js:21-23
getTimestamp(t) == ReplaceColonsAndDots(toISOString(t))

\* path.join(a, b) for two relative segments without "." or "..".
pathJoin(a, b) == a \o <<"/">> \o b

Output == <<"o","u","t","p","u","t">>

DotTxt == <<".","t","x","t">>

\* scraper.js:47
OutputDirOf(domain, timestamp) == pathJoin(Output, domain \o <<"_">> \o timestamp)

\* scraper.js:86
KeywordsFile(outputDir, timestamp) ==
  pathJoin(outputDir, <<"k","e","y","w","o","r","d","s","_">> \o timestamp \o DotTxt)

\* scraper.js:87
PhrasesFile(outputDir, timestamp) ==
  pathJoin(outputDir, <<"p","h","r","a","s","e","s","_">> \o timestamp \o DotTxt)

IsAlphaNumeric(c) ==
  \/ \E k \in 1..26 : c = LowerAlpha[k] \/ c = UpperAlpha[k]
  \/ \E k \in 1..10 : c = Digits[k]

\* randomKeyword.replace(/[^a-z0-9]/gi, '_').toLowerCase(), scraper.js:93
safeFileName(keyword) ==
  toLowerCase([k \in 1..Len(keyword) |->
                 IF IsAlphaNumeric(keyword[k]) THEN keyword[k] ELSE "_"])

\* scraper.js:94
ArticleFile(outputDir, keyword, timestamp) ==
  pathJoin(outputDir, safeFileName(keyword) \o <<"_">> \o timestamp \o DotTxt)

\* scraper.js:211
SummaryFile(outputDir, timestamp) ==
  pathJoin(outputDir, <<"s","u","m","m","a","r","y","_">> \o timestamp \o DotTxt)

None == <<"N","o","n","e">>

(***************************************************************************)
(* The inputs of a run.                                                    *)
(***************************************************************************)
NL == <<"\n">>

UrlAB == HTTP \o <<"a","b","/","s">>

UrlA == HTTP \o <<"a","/","s">>

UrlA2 == HTTP \o <<"a","/","t">>

BadLine == <<"b","a","d">>

\* The contents of sitemaps.txt the model starts from: two distinct hosts, one
\* a string prefix of the other, with an invalid and a blank line between
\* them; and two sitemaps of one host.
SitemapFiles ==
  { UrlAB \o NL \o BadLine \o NL \o NL \o UrlA \o NL,
    UrlA \o NL \o UrlA2 }

\* The loc values of the sitemaps the fetcher can return.
LocFixNj == HTTPS \o <<"a","/","f","i","x","-","n","j",".","h","t","m","l">>

LocTowNj == HTTP \o <<"a","/","t","o","w","-","N","J","/">>

LocAboutUs == HTTP \o <<"a","/","a","b","o","u","t","-","u","s",".","p","h","p">>

LocBlog == HTTP \o <<"a","/","b","l","o","g","/","x","-","y">>

LocAbout == HTTP \o <<"a","/","a","b","o","u","t">>

\* What axios.get can resolve to: a sitemap with keywords and one without;
\* and, as failures of the environment, a urlset with no url entry and a
\* body that is not XML.
Sitemaps ==
  { [xml |-> TRUE, locs |-> <<LocFixNj, LocBlog, LocAboutUs, LocTowNj, LocAbout>>],
    [xml |-> TRUE, locs |-> <<LocAboutUs, LocAbout>>] }

BrokenBodies ==
  { [xml |-> TRUE, locs |-> <<>>],
    [xml |-> FALSE, locs |-> <<>>] }

\* completion.choices[0].message.content of a successful completion.
ArticleText == <<"t","e","x","t">>

(***************************************************************************)
(* State.                                                                  *)
(***************************************************************************)
VARIABLES
  clock,         \* the wall clock new Date() and the timers read
  proc,          \* the process: running, or how it ended
  MAX_WORKERS,   \* ./config's MAX_WORKERS, fixed for the run
  sitemaps,      \* the contents of sitemaps.txt
  sitemapUrls,   \* main: the valid lines, in input order
  mpc,           \* main: the await it is suspended at
  idx,           \* main: the 1-based position of the for loop
  mwake,         \* main: when its pending timer fires
  workers,       \* main: the workers Map, as the set of its keys
  results,       \* main: the results array
  progressBars,  \* main: the progressBars Map, domain -> bar
  bars,          \* the progress bar created for each worker
  awaited,       \* main: the workers whose 'exit' lines 200-203 await
  pending,       \* main: the summary writes in flight
  report,        \* the count printed by line 217, or -1
  w,             \* worker threads: processSitemap's position and locals
  channel,       \* messages posted by each worker and not yet delivered
  files,         \* file system: what the summary step wrote, path -> contents
  outcome,       \* history: the messages each worker has posted
  calls,         \* history: the external calls each worker has issued
  unreachable,   \* environment: the sitemap URLs that answer no request
  providerDown,  \* environment: whether every completion request fails
  faults,        \* environment: the transient failures and delays so far
  urlset,        \* the loc values of one parsed sitemap under classification
  acc            \* what lines 56-83 make of urlset, stage by stage

vars ==
  <<clock, proc, MAX_WORKERS, sitemaps, sitemapUrls, mpc, idx, mwake,
    workers, results, progressBars, bars, awaited, pending, report, w, channel,
    files, outcome, calls, unreachable, providerDown, faults, urlset, acc>>

\* main's own position and locals.
mainVars == <<sitemapUrls, mpc, idx, mwake, awaited, pending, report>>

\* What the worker event handlers write.
handlerVars == <<workers, results, progressBars, bars>>

\* What is fixed when the run starts; and urlset and acc, which the run of
\* main does not touch (they belong to SpecClassify below).
configVars == <<MAX_WORKERS, sitemaps, unreachable, providerDown, urlset, acc>>

\* The process runs; inFlight and terminated are set when it ends.
Running ==
  [state |-> "running", error |-> "", at |-> <<>>, inFlight |-> {},
   terminated |-> {}]

\* An exception no handler catches ends the process (exit code 1), and its
\* worker threads with it.  inFlight: the workers map at that moment.
Uncaught(error, at, inFlight) ==
  [state |-> "uncaught", error |-> error, at |-> at, inFlight |-> inFlight,
   terminated |-> {}]

\* process.exit(0) after worker.terminate() on the workers in terminated.
Exited(at, inFlight, terminated) ==
  [state |-> "exit", error |-> "", at |-> at, inFlight |-> inFlight,
   terminated |-> terminated]

\* The locals of processSitemap before an attempt; pc "idle": no thread yet.
IdleUnit ==
  [ pc |-> "idle", attempts |-> 0, gattempts |-> 0, wake |-> 0,
    timestamp |-> <<>>, outputDir |-> <<>>, keywords |-> <<>>,
    phrases |-> <<>>, randomKeyword |-> None, dirs |-> {}, files |-> <<>> ]

\* What postMessage carries when processSitemap returned without a value.
Undefined == [undefined |-> TRUE]

\* scraper.js:143-154
validUrls(text) == SelectSeq(SelectSeq(split(text, "\n"), NonBlank), IsValidURL)

Units == DOMAIN w

\* Lines 56-83 have not run on urlset.
NotClassified ==
  [done |-> FALSE, kept |-> <<>>, texts |-> <<>>, keywords |-> <<>>, phrases |-> <<>>]

domainOf(i) == hostname(sitemapUrls[i])

\* No request issued yet.  lastIn: the attempt of processSitemap, counted
\* from 1, that issued the last completion request.
NoCalls == [fetches |-> 0, completions |-> 0, lastIn |-> 0]

\* axios.get(sitemapUrl) is called, scraper.js:52.
Fetched(i) == calls' = [calls EXCEPT ![i].fetches = @ + 1]

\* openai.chat.completions.create is called, scraper.js:121.
Requested(i) ==
  calls' = [calls EXCEPT ![i].completions = @ + 1, ![i].lastIn = w[i].attempts + 1]

\* The environment injects one more transient failure or delay.
Injected == faults < MaxFaults /\ faults' = faults + 1

Init ==
  /\ clock = 0
  /\ proc = Running
  /\ MAX_WORKERS \in 1..MaxWorkers
  /\ sitemaps \in SitemapFiles
  /\ sitemapUrls = <<>>
  /\ mpc = "read"
  /\ idx = 1
  /\ mwake = 0
  /\ workers = {}
  /\ results = <<>>
  /\ progressBars = <<>>
  /\ bars = <<>>
  /\ awaited = {}
  /\ pending = {}
  /\ report = -1
  /\ w = <<>>
  /\ channel = <<>>
  /\ files = <<>>
  /\ outcome = <<>>
  /\ calls = <<>>
  /\ unreachable \in SUBSET {UrlAB, UrlA, UrlA2}
  /\ unreachable \subseteq {validUrls(sitemaps)[k] : k \in 1..Len(validUrls(sitemaps))}
  /\ providerDown \in BOOLEAN
  /\ faults = 0
  /\ urlset = <<>>
  /\ acc = NotClassified

\* The process has ended: its memory (main's locals, the worker threads and
\* the messages in flight) is gone.  The clock, the file system and the
\* report already printed stay.
Halt(how) ==
  /\ proc' = how
  /\ sitemapUrls' = <<>>
  /\ mpc' = "gone"
  /\ idx' = 1
  /\ mwake' = 0
  /\ workers' = {}
  /\ results' = <<>>
  /\ progressBars' = <<>>
  /\ bars' = <<>>
  /\ awaited' = {}
  /\ pending' = {}
  /\ w' = <<>>
  /\ channel' = <<>>
  /\ UNCHANGED <<clock, report, files, outcome, calls, faults, configVars>>

(***************************************************************************)
(* The worker thread: processSitemap and generateArticle.  A thread is     *)
(* observed where it waits for a timer and where it has posted its         *)
(* message: the awaits in between (mkdir, the request, the parse, the      *)
(* writes) read and write nothing another thread sees, and are part of the *)
(* action that reaches the next timer or the message.                      *)
(***************************************************************************)
\* A ceiling test that lets the failure at the ceiling through.
ExhaustedLate(attempts, ceiling) == attempts > ceiling

\* scraper.js:107 and :135: the retry ceiling is reached.
Exhausted(attempts, ceiling) == attempts = ceiling

\* fs.writeFile(path, data): the file system after it.
writeFile(fs, path, data) ==
  [p \in DOMAIN fs \cup {path} |-> IF p = path THEN data ELSE fs[p]]

\* The return value of processSitemap, scraper.js:97-103.
DomainResult(i, u) ==
  [ domain |-> domainOf(i),
    outputDir |-> u.outputDir,
    keywordCount |-> Len(u.keywords),
    phraseCount |-> Len(u.phrases),
    processedKeyword |-> u.randomKeyword ]

\* The catch block of processSitemap, scraper.js:104-109, and the worker
\* entry's .catch (scraper.js:223) when it rethrows.  The locals of the try
\* block are gone.
Caught(i, message) ==
  LET n == w[i].attempts + 1
      cleared == [IdleUnit EXCEPT !.attempts = n]
  IN IF Exhausted(n, maxRetries)
     THEN /\ w' = [w EXCEPT ![i] = [cleared EXCEPT !.pc = "posted"]]
          /\ channel' = [channel EXCEPT ![i] = Append(@, [error |-> message])]
          /\ outcome' = [outcome EXCEPT ![i] = Append(@, [error |-> message])]
     ELSE /\ w' = [w EXCEPT ![i] =
                     [cleared EXCEPT !.pc = "backoff",
                                     !.wake = clock + RATE_LIMIT_DELAY * n]]
          /\ UNCHANGED <<channel, outcome>>

\* A worker entry that posts the result a second time.
ReturnedTwice(i, u) ==
  /\ w' = [w EXCEPT ![i] = [u EXCEPT !.pc = "posted", !.wake = 0]]
  /\ channel' = [channel EXCEPT ![i] = Append(Append(@, DomainResult(i, u)),
                                             DomainResult(i, u))]
  /\ outcome' = [outcome EXCEPT ![i] = Append(Append(@, DomainResult(i, u)),
                                             DomainResult(i, u))]

\* processSitemap returns u's result and the worker entry posts it,
\* scraper.js:97-103 and :222.
Returned(i, u) ==
  /\ w' = [w EXCEPT ![i] = [u EXCEPT !.pc = "posted", !.wake = 0]]
  /\ channel' = [channel EXCEPT ![i] = Append(@, DomainResult(i, u))]
  /\ outcome' = [outcome EXCEPT ![i] = Append(@, DomainResult(i, u))]

\* An attempt that keeps the timestamp and the directory it finds.
BeganStale(i) == [w[i] EXCEPT !.wake = 0, !.randomKeyword = None]

\* scraper.js:45-50: the domain, a new timestamp, a new output directory,
\* randomKeyword = 'None', mkdir.
Began(i) ==
  LET timestamp == getTimestamp(clock)
      outputDir == OutputDirOf(domainOf(i), timestamp)
  IN [w[i] EXCEPT !.wake = 0, !.timestamp = timestamp, !.outputDir = outputDir,
                  !.randomKeyword = None, !.dirs = {Output, outputDir}]

\* How parsing a broken body fails, scraper.js:54-57: a body that is not XML
\* rejects; a urlset without url entries makes result.urlset.url.map throw.
ParseError(body) ==
  IF body.xml THEN "Cannot read properties of undefined" ELSE "Not well-formed"

\* scraper.js:56-83, for each sitemap the fetcher can return.
classified == [body \in Sitemaps |-> classify(body.locs)]

\* The keywords and phrases of the attempt, scraper.js:82-83.
Classified(u, body) ==
  [u EXCEPT !.keywords = classified[body].keywords,
            !.phrases = classified[body].phrases]

\* scraper.js:85-88
Persisted(u) ==
  [u EXCEPT !.files =
     writeFile(writeFile(u.files, KeywordsFile(u.outputDir, u.timestamp),
                         join(u.keywords, NL)),
               PhrasesFile(u.outputDir, u.timestamp), join(u.phrases, NL))]

\* randomKeyword = keywords[k] and the call of generateArticle up to its
\* first await (scraper.js:91-92, 113-119).
Chosen(u, k) ==
  [u EXCEPT !.randomKeyword = u.keywords[k], !.gattempts = 0,
            !.pc = "generate", !.wake = clock + RATE_LIMIT_DELAY]

\* An attempt that returns without writing the article.
ArticleNotWritten(u) == u

\* scraper.js:93-94
ArticleWritten(u) ==
  [u EXCEPT !.files =
     writeFile(u.files, ArticleFile(u.outputDir, u.randomKeyword, u.timestamp),
               ArticleText)]

\* One round of the while loop of processSitemap, scraper.js:43-109, up to
\* the timer of generateArticle, the return or the catch.  A loop left with
\* attempts = maxRetries returns nothing.
Attempt(i) ==
  /\ proc = Running
  /\ i \in Units
  /\ w[i].pc \in {"start", "backoff"}
  /\ clock >= w[i].wake
  /\ IF w[i].attempts < maxRetries
     THEN \/ /\ Injected
             /\ Caught(i, "mkdir failed")
             /\ UNCHANGED calls
          \/ /\ IF sitemapUrls[i] \in unreachable
                THEN UNCHANGED faults
                ELSE Injected
             /\ Caught(i, "Request failed")
             /\ Fetched(i)
          \/ /\ sitemapUrls[i] \notin unreachable
             /\ Injected
             /\ \E body \in BrokenBodies : Caught(i, ParseError(body))
             /\ Fetched(i)
          \/ /\ sitemapUrls[i] \notin unreachable
             /\ Injected
             /\ Caught(i, "write failed")
             /\ Fetched(i)
          \/ /\ sitemapUrls[i] \notin unreachable
             /\ UNCHANGED faults
             /\ Fetched(i)
             /\ \E body \in Sitemaps :
                  LET u == Persisted(Classified(Began(i), body))
                  IN IF Len(u.keywords) > 0
                     THEN /\ \E k \in 1..Len(u.keywords) :
                               w' = [w EXCEPT ![i] = Chosen(u, k)]
                          /\ UNCHANGED <<channel, outcome>>
                     ELSE Returned(i, u)
     ELSE /\ w' = [w EXCEPT ![i] = [@ EXCEPT !.pc = "posted", !.wake = 0]]
          /\ channel' = [channel EXCEPT ![i] = Append(@, Undefined)]
          /\ outcome' = [outcome EXCEPT ![i] = Append(@, Undefined)]
          /\ UNCHANGED <<faults, calls>>
  /\ UNCHANGED <<clock, proc, mainVars, handlerVars, configVars, files>>

\* One round of the while loop of generateArticle once its rate-limit timer
\* has fired, scraper.js:121-137; after a completion, lines 93-103.
Complete(i) ==
  LET g == w[i].gattempts + 1
  IN /\ proc = Running
     /\ i \in Units
     /\ w[i].pc = "generate"
     /\ clock >= w[i].wake
     /\ Requested(i)
     /\ \/ /\ ~providerDown
           /\ UNCHANGED faults
           /\ Returned(i, ArticleWritten(w[i]))
        \/ /\ ~providerDown
           /\ Injected
           /\ Caught(i, "write failed")
        \/ /\ IF providerDown THEN UNCHANGED faults ELSE Injected
           /\ IF Exhausted(g, generateMaxRetries)
              THEN Caught(i, "Connection error.")
              ELSE /\ w' = [w EXCEPT ![i] =
                              [@ EXCEPT !.pc = "gbackoff", !.gattempts = g,
                                        !.wake = clock + RATE_LIMIT_DELAY * g]]
                   /\ UNCHANGED <<channel, outcome>>
     /\ UNCHANGED <<clock, proc, mainVars, handlerVars, configVars, files>>

\* A retry of generateArticle that issues its request without the rate-limit
\* timer.
RegenerateAtOnce(i) ==
  /\ proc = Running
  /\ i \in Units
  /\ w[i].pc = "gbackoff"
  /\ clock >= w[i].wake
  /\ w' = [w EXCEPT ![i] = [@ EXCEPT !.pc = "generate", !.wake = clock]]
  /\ UNCHANGED <<clock, proc, mainVars, handlerVars, configVars, files, channel,
                 outcome, calls, faults>>

\* The backoff of generateArticle is over: the next round of its loop starts
\* with the rate-limit timer, scraper.js:117-119.
Regenerate(i) ==
  /\ proc = Running
  /\ i \in Units
  /\ w[i].pc = "gbackoff"
  /\ clock >= w[i].wake
  /\ w' = [w EXCEPT ![i] =
             [@ EXCEPT !.pc = "generate", !.wake = clock + RATE_LIMIT_DELAY]]
  /\ UNCHANGED <<clock, proc, mainVars, handlerVars, configVars, files, channel,
                 outcome, calls, faults>>

(***************************************************************************)
(* The coordinator: main(), its worker event handlers, the SIGINT handler. *)
(***************************************************************************)
\* A progress bar: active from start() to stop(); start() records the clock
\* reading as the bar's start time.
NoBar == [active |-> FALSE, value |-> 0, startTime |-> 0]

\* Map.prototype.set and Map.prototype.delete on a map held as a function.
mapSet(m, k, v) == [x \in DOMAIN m \cup {k} |-> IF x = k THEN v ELSE m[x]]

mapDelete(m, k) == [x \in DOMAIN m \ {k} |-> m[x]]

\* await fs.readFile and the filters, scraper.js:142-159.  A failed read
\* rejects main, which console.error logs (scraper.js:225).
Start ==
  /\ proc = Running
  /\ mpc = "read"
  /\ \/ LET urls == validUrls(sitemaps)
        IN /\ sitemapUrls' = urls
           /\ w' = [i \in 1..Len(urls) |-> IdleUnit]
           /\ channel' = [i \in 1..Len(urls) |-> <<>>]
           /\ bars' = [i \in 1..Len(urls) |-> NoBar]
           /\ outcome' = [i \in 1..Len(urls) |-> <<>>]
           /\ calls' = [i \in 1..Len(urls) |-> NoCalls]
           /\ mpc' = "loop"
           /\ UNCHANGED faults
     \/ /\ Injected
        /\ mpc' = "rejected"
        /\ UNCHANGED <<sitemapUrls, w, channel, bars, outcome, calls>>
  /\ UNCHANGED <<clock, proc, idx, mwake, workers, results, progressBars,
                 awaited, pending, report, files, configVars>>

\* A slot-wait loop that lets one unit too many through.
NoFreeSlotOffByOne(size) == size > MAX_WORKERS

\* The condition of the slot-wait loop, scraper.js:162.
NoFreeSlot(size) == size >= MAX_WORKERS

\* One round of the slot-wait loop: a timer of RATE_LIMIT_DELAY.
Poll ==
  /\ proc = Running
  /\ mpc = "loop"
  /\ clock >= mwake
  /\ idx <= Len(sitemapUrls)
  /\ NoFreeSlot(Cardinality(workers))
  /\ mwake' = clock + RATE_LIMIT_DELAY
  /\ UNCHANGED <<clock, proc, sitemapUrls, mpc, idx, awaited, pending, report,
                 handlerVars, w, channel, files, outcome, calls, faults, configVars>>

\* A loop body without the timer at its end.
LaunchNoDelay ==
  /\ proc = Running
  /\ mpc = "loop"
  /\ clock >= mwake
  /\ idx <= Len(sitemapUrls)
  /\ ~NoFreeSlot(Cardinality(workers))
  /\ bars' = [bars EXCEPT ![idx] = [active |-> TRUE, value |-> 0, startTime |-> clock]]
  /\ progressBars' = mapSet(progressBars, domainOf(idx), idx)
  /\ workers' = workers \cup {idx}
  /\ w' = [w EXCEPT ![idx] = [@ EXCEPT !.pc = "start"]]
  /\ idx' = idx + 1
  /\ UNCHANGED <<clock, proc, sitemapUrls, mpc, mwake, awaited, pending, report,
                 results, channel, files, outcome, calls, faults, configVars>>

\* The body of the for loop once a slot is free, scraper.js:166-197: the
\* progress bar, the worker and its handlers, the timer of line 197.
Launch ==
  /\ proc = Running
  /\ mpc = "loop"
  /\ clock >= mwake
  /\ idx <= Len(sitemapUrls)
  /\ ~NoFreeSlot(Cardinality(workers))
  /\ bars' = [bars EXCEPT ![idx] = [active |-> TRUE, value |-> 0, startTime |-> clock]]
  /\ progressBars' = mapSet(progressBars, domainOf(idx), idx)
  /\ workers' = workers \cup {idx}
  /\ w' = [w EXCEPT ![idx] = [@ EXCEPT !.pc = "start"]]
  /\ mwake' = clock + RATE_LIMIT_DELAY
  /\ idx' = idx + 1
  /\ UNCHANGED <<clock, proc, sitemapUrls, mpc, awaited, pending, report,
                 results, channel, files, outcome, calls, faults, configVars>>

\* if (result.error)
Truthy(result) == "error" \in DOMAIN result /\ result.error # ""

\* progressBars.get(domain) is an object a method can be called on.
HasBar(domain) == domain \in DOMAIN progressBars

\* The 'error' listener (scraper.js:185-188) has no action: the worker entry
\* catches every rejection of processSitemap and posts it as a message
\* (scraper.js:221-223), so a worker emits no 'error'.
\*
\* worker.on('message'), scraper.js:174-183.  Reading result.error of
\* undefined, or calling a method of an undefined progressBars.get(domain),
\* throws a TypeError that nothing catches.
OnMessage(i) ==
  LET result == Head(channel[i])
      domain == domainOf(i)
  IN /\ proc = Running
     /\ i \in Units
     /\ channel[i] # <<>>
     /\ IF result = Undefined \/ ~HasBar(domain)
        THEN Halt(Uncaught("TypeError", <<"message", i>>, workers))
        ELSE /\ channel' = [channel EXCEPT ![i] = Tail(@)]
             /\ IF Truthy(result)
                THEN /\ bars' = [bars EXCEPT ![progressBars[domain]].active = FALSE]
                     /\ UNCHANGED results
                ELSE /\ bars' = [bars EXCEPT ![progressBars[domain]].value = 100]
                     /\ results' = Append(results, result)
             /\ UNCHANGED <<clock, proc, mainVars, workers, progressBars, w, files,
                            outcome, calls, faults, configVars>>

\* worker.on('exit'), scraper.js:190-195: emitted once the thread has ended
\* and its messages have been delivered.  The thread's memory is gone.
OnExit(i) ==
  LET domain == domainOf(i)
  IN /\ proc = Running
     /\ i \in Units
     /\ w[i].pc = "posted"
     /\ channel[i] = <<>>
     /\ IF HasBar(domain)
        THEN /\ w' = [w EXCEPT ![i] = [IdleUnit EXCEPT !.pc = "exited"]]
             /\ workers' = workers \ {i}
             /\ bars' = [bars EXCEPT ![progressBars[domain]].active = FALSE]
             /\ progressBars' = mapDelete(progressBars, domain)
             /\ UNCHANGED <<clock, proc, mainVars, results, channel, files,
                            outcome, calls, faults, configVars>>
        ELSE Halt(Uncaught("TypeError", <<"exit", i>>, workers \ {i}))

\* The for loop is over: line 200 takes the workers still in the map and
\* awaits the 'exit' of each.
LoopEnd ==
  /\ proc = Running
  /\ mpc = "loop"
  /\ clock >= mwake
  /\ idx > Len(sitemapUrls)
  /\ awaited' = workers
  /\ mpc' = "await"
  /\ UNCHANGED <<clock, proc, sitemapUrls, idx, mwake, pending, report,
                 handlerVars, w, channel, files, outcome, calls, faults, configVars>>

COLON_SPACE == <<":"," ">>

KEYWORDS_ == <<" ","k","e","y","w","o","r","d","s",","," ">>

PHRASES_ == <<" ","p","h","r","a","s","e","s",","," ","p","r","o","c","e","s","s","e","d"," ","k","e","y","w","o","r","d",":"," ">>

\* One line of summaries, scraper.js:206-208.
summaryLine(r) ==
  r.domain \o COLON_SPACE \o NumberToString(r.keywordCount) \o KEYWORDS_
  \o NumberToString(r.phraseCount) \o PHRASES_ \o r.processedKeyword

summariesOf(rs) == [k \in 1..Len(rs) |-> summaryLine(rs[k])]

\* summaries.find(s => s.startsWith(domain)), scraper.js:212
findSummary(summaries, domain) ==
  LET hits == {k \in 1..Len(summaries) : startsWith(summaries[k], domain)}
  IN summaries[CHOOSE k \in hits : \A h \in hits : k <= h]

\* The writes lines 210-214 issue, one per result.
summaryWrites(rs, timestamp) ==
  { [ k |-> k,
      path |-> SummaryFile(rs[k].outputDir, timestamp),
      data |-> findSummary(summariesOf(rs), rs[k].domain) ] : k \in 1..Len(rs) }

\* A summary step that does not wait for the exits.
SettledEarly ==
  /\ proc = Running
  /\ mpc = "await"
  /\ pending' = summaryWrites(results, getTimestamp(clock))
  /\ mpc' = "summary"
  /\ UNCHANGED <<clock, proc, sitemapUrls, idx, mwake, awaited, report,
                 handlerVars, w, channel, files, outcome, calls, faults, configVars>>

\* Every awaited worker has exited (line 203); lines 205-213 up to the await
\* of Promise.all.
Settled ==
  /\ proc = Running
  /\ mpc = "await"
  /\ \A i \in awaited : w[i].pc = "exited"
  /\ pending' = summaryWrites(results, getTimestamp(clock))
  /\ mpc' = "summary"
  /\ UNCHANGED <<clock, proc, sitemapUrls, idx, mwake, awaited, report,
                 handlerVars, w, channel, files, outcome, calls, faults, configVars>>

\* One of the summary writes ends.  A failed write rejects main, which
\* console.error logs; the other writes go on.
SummaryWrite(job) ==
  /\ proc = Running
  /\ job \in pending
  /\ pending' = pending \ {job}
  /\ \/ /\ files' = writeFile(files, job.path, job.data)
        /\ UNCHANGED <<mpc, faults>>
     \/ /\ Injected
        /\ mpc' = "rejected"
        /\ UNCHANGED files
  /\ UNCHANGED <<clock, proc, sitemapUrls, idx, mwake, awaited, report,
                 handlerVars, w, channel, outcome, calls, configVars>>

\* A filter that keeps the results without an article.
HasNoArticle(r) == r.processedKeyword = None

\* r.processedKeyword !== 'None', scraper.js:216
HasArticle(r) == r.processedKeyword # None

\* scraper.js:216
totalArticles(rs) == Len(SelectSeq(rs, HasArticle))

\* Promise.all resolved: the final report, scraper.js:216-217.
Report ==
  /\ proc = Running
  /\ mpc = "summary"
  /\ pending = {}
  /\ report' = totalArticles(results)
  /\ mpc' = "done"
  /\ UNCHANGED <<clock, proc, sitemapUrls, idx, mwake, awaited, pending,
                 handlerVars, w, channel, files, outcome, calls, faults, configVars>>

\* The names the SIGINT handler's scope chain resolves: the module's own
\* bindings (scraper.js:1-10, 17, 21, 25, 34, 39, 113, 141).  workers,
\* results and progressBars are locals of main (scraper.js:155-157).
ModuleScope ==
  { "axios", "xml2js", "fs", "path", "OpenAI", "Worker", "isMainThread",
    "parentPort", "workerData", "URL", "cliProgress", "colors", "MAX_WORKERS",
    "RATE_LIMIT_DELAY", "openai", "getTimestamp", "createProgressBar",
    "isValidKeyword", "processSitemap", "generateArticle", "main" }

\* main has returned or rejected and nothing is left to run: the process has
\* ended by itself.
Finished == mpc \in {"done", "rejected"} /\ pending = {}

\* process.on('SIGINT'), scraper.js:227-233.
Sigint ==
  /\ proc = Running
  /\ ~Finished
  /\ IF "workers" \in ModuleScope
     THEN Halt(Exited(<<"SIGINT">>, workers, workers))
     ELSE Halt(Uncaught("ReferenceError", <<"SIGINT">>, workers))

\* A thread waits for a timer that has not fired yet.
TimerPending ==
  \/ mpc = "loop" /\ mwake > clock
  \/ \E i \in Units : w[i].pc \in {"backoff", "generate", "gbackoff"}
                      /\ w[i].wake > clock

\* Some thread has a step to take at this instant.
Runnable ==
  \/ mpc \in {"read", "summary"}
  \/ mpc = "loop" /\ clock >= mwake
  \/ mpc = "await" /\ \A i \in awaited : w[i].pc = "exited"
  \/ pending # {}
  \/ \E i \in Units : \/ w[i].pc \in {"start", "backoff", "generate", "gbackoff"}
                         /\ clock >= w[i].wake
                      \/ w[i].pc = "posted"

\* Time passes: while every thread waits for a timer; or, as a delay the
\* environment injects (a slow request, a busy event loop), while some
\* thread has a step to take.
Tick ==
  /\ proc = Running
  /\ TimerPending
  /\ IF Runnable THEN Injected ELSE UNCHANGED faults
  /\ clock' = clock + 1
  /\ UNCHANGED <<proc, mainVars, handlerVars, w, channel, files, outcome, calls,
                 configVars>>

Next ==
  \/ Start
  \/ Poll
  \/ Launch
  \/ LoopEnd
  \/ Settled
  \/ \E job \in pending : SummaryWrite(job)
  \/ Report
  \/ Sigint
  \/ Tick
  \/ \E i \in Units : Attempt(i)
  \/ \E i \in Units : Complete(i)
  \/ \E i \in Units : Regenerate(i)
  \/ \E i \in Units : OnMessage(i)
  \/ \E i \in Units : OnExit(i)

Spec == Init /\ [][Next]_vars

(***************************************************************************)
(* The classification of lines 56-83 on its own: SpecClassify starts from  *)
(* a sequence of loc values and applies the filter, the map and the reduce *)
(* to it.                                                                  *)
(***************************************************************************)
\* Longest path the systematic inputs hold.
MaxPathLen == 4

\* The characters of the systematic paths.
PathAlphabet == {"a", "n", "J", "-", "/"}

\* Every path of at most MaxPathLen characters of PathAlphabet.
SystematicPaths == UNION {[1..m -> PathAlphabet] : m \in 0..MaxPathLen}

\* Paths with the extensions, the slashes and the blog words the code treats.
ChosenPaths ==
  { <<"/","p","l","u","m","b","i","n","g","-","r","e","p","a","i","r","-","n","j",".","h","t","m","l">>,
    <<"/","e","m","e","r","g","e","n","c","y","-","p","l","u","m","b","e","r","-","n","j","/">>,
    <<"/","a","b","o","u","t">>,
    <<>>,
    <<"/">>,
    <<"/","b","l","o","g","/","f","i","x","-","n","j">>,
    <<"/","B","l","o","g","g","i","n","g","-","t","i","p","s","-","N","J">>,
    <<"/","a","-","-","b">>,
    <<"/","n","j">>,
    <<"/","f","i","x","-","N","J","-","n","o","w",".","p","h","p">>,
    <<"/","t","o","w","-","n","J">>,
    <<"/","-","a","-","b","-">>,
    <<"/","s","e","r","v","i","c","e","s","/","d","r","a","i","n","-","c","l","e","a","n","i","n","g","-","n","j","/">>,
    <<"/","a","-","b",".","h","t","m","l","/">>,
    <<"/","A","-","b","C",".","P","H","P">>,
    <<"/","/","a","-","b","/","/">>,
    <<"/","w","e","b","l","o","g","-","x">>,
    <<"/","a","-","b",".","p","h","p",".","h","t","m","l">>,
    <<"/","n","j","-","n","j">> }

Schemes == {HTTP, HTTPS, toUpperCase(HTTPS)}

Hosts == { <<"x",".","c","o","m">>, <<"b","l","o","g",".","i","o">>, <<"n","j">> }

XCom == HTTPS \o <<"x",".","c","o","m">>

\* The loc values the classification is run on.
TestUrls ==
  {s \o h \o p : s \in Schemes, h \in Hosts, p \in ChosenPaths}
  \cup {XCom \o p : p \in SystematicPaths}

\* The sitemaps: empty, of one loc value, and of two chosen loc values of one
\* site.
LocSequences ==
  {<<>>} \cup {<<u>> : u \in TestUrls}
  \cup {<<XCom \o p, XCom \o q>> : p \in ChosenPaths, q \in ChosenPaths}

\* Main is not running: only urlset and acc are in use.
InitClassify ==
  /\ urlset \in LocSequences
  /\ acc = NotClassified
  /\ clock = 0
  /\ proc = Running
  /\ MAX_WORKERS = 1
  /\ sitemaps = <<>>
  /\ sitemapUrls = <<>>
  /\ mpc = "read"
  /\ idx = 1
  /\ mwake = 0
  /\ workers = {}
  /\ results = <<>>
  /\ progressBars = <<>>
  /\ bars = <<>>
  /\ awaited = {}
  /\ pending = {}
  /\ report = -1
  /\ w = <<>>
  /\ channel = <<>>
  /\ files = <<>>
  /\ outcome = <<>>
  /\ calls = <<>>
  /\ unreachable = {}
  /\ providerDown = FALSE
  /\ faults = 0

\* scraper.js:56-83 on urlset: the blog filter, the map, and the filter and
\* reduce on its texts.
Classify ==
  /\ ~acc.done
  /\ LET kept == SelectSeq(urlset, NotBlogUrl)
     IN acc' = [ done |-> TRUE,
                 kept |-> kept,
                 texts |-> [k \in 1..Len(kept) |-> transform(kept[k])],
                 keywords |-> classify(urlset).keywords,
                 phrases |-> classify(urlset).phrases ]
  /\ UNCHANGED <<clock, proc, mainVars, handlerVars, w, channel, files, outcome, calls,
                 faults, MAX_WORKERS, sitemaps, unreachable, providerDown, urlset>>

NextClassify == Classify

SpecClassify == InitClassify /\ [][NextClassify]_vars

(***************************************************************************)
(* Properties.                                                             *)
(***************************************************************************)
\* The units launched that have not emitted 'exit'.
InFlight == {i \in Units : w[i].pc \notin {"idle", "exited"}}

\* A message is a Success (a DomainResult) or a Failure ({error}).
IsSuccess(m) == "processedKeyword" \in DOMAIN m

IsFailure(m) == "error" \in DOMAIN m

\* The units that have posted a Success, a Failure.
Succeeded == {i \in DOMAIN outcome : \E k \in 1..Len(outcome[i]) : IsSuccess(outcome[i][k])}

Failed == {i \in DOMAIN outcome : \E k \in 1..Len(outcome[i]) : IsFailure(outcome[i][k])}

\* An exception thrown by a worker event handler of main has ended the process.
HandlerThrew == proc.state = "uncaught" /\ proc.at[1] \in {"message", "exit"}

\* Every valid line of sitemaps.txt names a sitemap that answers no request:
\* every unit of the batch ends in Failure.
AllUnreachable ==
  \A k \in 1..Len(validUrls(sitemaps)) : validUrls(sitemaps)[k] \in unreachable

\* C1: in every reachable state at most MAX_WORKERS units are launched and
\* have not yet emitted 'exit', which is the size of the workers map; and a
\* unit is launched only in a state where fewer than MAX_WORKERS are.
C1_AtMostMaxWorkersInFlight ==
  /\ [](/\ Cardinality(InFlight) <= MAX_WORKERS
        /\ proc = Running => workers = InFlight)
  /\ [][\A i \in Units :
          i \in Units' /\ w[i].pc = "idle" /\ w'[i].pc # "idle"
            => Cardinality(workers) < MAX_WORKERS]_vars

\* C1 witness: with MAX_WORKERS = 1 the loop is blocked at the second task
\* while the first unit is in flight.
C1_Witness_LaunchBlocked ==
  /\ MAX_WORKERS = 1
  /\ Cardinality(workers) = 1
  /\ mpc = "loop"
  /\ idx = 2
  /\ idx <= Len(sitemapUrls)
  /\ clock >= mwake

\* C2: in a batch where every unit ends in Failure no unhandled error is
\* raised in the coordinator (so that it can reach the final report with
\* empty results, no summary file and a count of 0).
C2_AllFailingBatchRaisesNoError == HandlerThrew => ~AllUnreachable

\* C3: a unit's Failure never aborts the batch: once some unit has posted a
\* Failure, no error of the coordinator's handlers ends the run before the
\* aggregate report.
C3_FailureNeverAbortsBatch == HandlerThrew => Failed = {}
\* C4: when the first one or two attempts of a unit have failed and the next
\* one succeeds, the unit posts a Success carrying the domain, the output
\* directory, the counts and the processed keyword of that attempt; the
\* attempt derives its output directory from the clock reading at its own
\* start, and keeps it until it returns.
C4_SuccessAfterFailedAttempts ==
  /\ [](\A i \in Units :
          w[i].pc = "posted" /\ w[i].attempts \in 1..(maxRetries - 1)
            => outcome[i] =
                 << [ domain |-> hostname(sitemapUrls[i]),
                      outputDir |-> w[i].outputDir,
                      keywordCount |-> Len(w[i].keywords),
                      phraseCount |-> Len(w[i].phrases),
                      processedKeyword |-> w[i].randomKeyword ] >>)
  /\ [][\A i \in Units :
          i \in Units' /\ w'[i].attempts = w[i].attempts /\ w[i].attempts > 0
            => /\ w[i].pc \in {"start", "backoff"} /\ w'[i].pc \in {"generate", "posted"}
                 => w'[i].outputDir =
                      OutputDirOf(hostname(sitemapUrls[i]), getTimestamp(clock))
               /\ w[i].pc \in {"generate", "gbackoff"}
                 => /\ w'[i].outputDir = w[i].outputDir
                    /\ w'[i].keywords = w[i].keywords
                    /\ w'[i].phrases = w[i].phrases
                    /\ w'[i].randomKeyword = w[i].randomKeyword]_vars

\* C4 witness: a unit has posted a Success after two failed attempts.
C4_Witness_ThirdAttemptSucceeded ==
  \E i \in Units : w[i].pc = "posted" /\ w[i].attempts = 2 /\ i \in Succeeded

\* C5: a unit never starts a fourth attempt: with maxRetries failures it
\* neither sleeps nor runs; the step of the third failure posts the
\* Failure {error} without a timer in between; and with fewer failures the
\* unit has posted no Failure.
C5_NoFourthAttempt ==
  /\ [](\A i \in Units :
          /\ w[i].attempts <= maxRetries
          /\ Len(outcome[i]) <= 1
          /\ w[i].pc \in {"start", "backoff", "generate", "gbackoff"}
               => w[i].attempts < maxRetries /\ outcome[i] = <<>>
          /\ w[i].pc = "posted"
               => (w[i].attempts = maxRetries <=> i \in Failed)
                  /\ (w[i].attempts < maxRetries <=> i \in Succeeded))
  /\ [][\A i \in Units :
          i \in Units' /\ w[i].attempts = maxRetries - 1
                       /\ w'[i].attempts = maxRetries
            => /\ w'[i].pc = "posted"
               /\ clock' = clock
               /\ channel'[i] # <<>>
               /\ channel'[i] = Append(channel[i], channel'[i][Len(channel'[i])])
               /\ IsFailure(channel'[i][Len(channel'[i])])]_vars

\* C5 witness: a unit has posted a Failure at its third failed attempt.
C5_Witness_ThirdFailurePosted ==
  \E i \in Units : w[i].pc = "posted" /\ w[i].attempts = maxRetries /\ i \in Failed

\* C6: the processedKeyword of a posted Success is "None" exactly when the
\* keywords of its attempt are empty; otherwise it is one of these keywords
\* and the attempt has written the article file of that keyword; and while
\* every completion fails no Success carries a keyword.
C6_ProcessedKeywordNoneIffNoKeywords ==
  /\ \A i \in Units :
       w[i].pc = "posted" /\ i \in Succeeded =>
         LET r == outcome[i][1]
             article == ArticleFile(r.outputDir, r.processedKeyword, w[i].timestamp)
         IN /\ r.processedKeyword = None <=> w[i].keywords = <<>>
            /\ w[i].keywords # <<>> =>
                 /\ \E k \in 1..Len(w[i].keywords) :
                      w[i].keywords[k] = r.processedKeyword
                 /\ article \in DOMAIN w[i].files
                 /\ w[i].files[article] = ArticleText
  /\ providerDown =>
       \A i \in Succeeded : outcome[i][1].processedKeyword = None

\* C6 witness: a unit has posted a Success whose attempt had keywords.
C6_Witness_SuccessWithKeyword ==
  \E i \in Units : w[i].pc = "posted" /\ i \in Succeeded /\ w[i].keywords # <<>>
\* The units whose Success names a generated article.
WithArticle == {i \in Succeeded : outcome[i][1].processedKeyword # None}

\* The summary files written into the output directory of r.
SummariesIn(r) ==
  {p \in DOMAIN files :
     startsWith(p, pathJoin(r.outputDir, <<"s","u","m","m","a","r","y","_">>))}

\* C7: every message a unit posts is collected as what it is: no 'message'
\* handler throws before it has collected its message, and once every unit
\* has exited results holds the posted Successes, one entry each, and
\* nothing else.
C7_EveryOutcomeCollectedOnce ==
  /\ ~(proc.state = "uncaught" /\ proc.at[1] = "message")
  /\ mpc \in {"summary", "done"} =>
       /\ Len(results) = Cardinality(Succeeded)
       /\ \A i \in Succeeded : \E k \in 1..Len(results) : results[k] = outcome[i][1]
       /\ \A k \in 1..Len(results) : IsSuccess(results[k])

\* C8: when main has reported, the output directory of every result r holds
\* exactly one summary file, whose content is the line built from r.
C8_SummaryBuiltFromItsResult ==
  mpc = "done" =>
    \A k \in 1..Len(results) :
      /\ Cardinality(SummariesIn(results[k])) = 1
      /\ \A p \in SummariesIn(results[k]) : files[p] = summaryLine(results[k])

\* C9: the count main reports is the number of units that posted a Success
\* with a processedKeyword other than "None".
C9_ReportCountsArticles == report # -1 => report = Cardinality(WithArticle)

\* C9 witness: main has reported one article for a batch in which another
\* unit failed or succeeded with "None".
C9_Witness_ReportedOneOfTwo ==
  /\ report = 1
  /\ Cardinality(DOMAIN outcome) = 2
  /\ Cardinality(WithArticle) = 1

\* C10: a SIGINT that arrives while units are in flight ends the process by
\* process.exit after terminate() was called on every worker of the map.
C10_SigintTerminatesInFlight ==
  proc.state # "running" /\ proc.at = <<"SIGINT">> /\ proc.inFlight # {}
    => proc.state = "exit" /\ proc.terminated = proc.inFlight
\* The output directory of the attempt unit i is in, or of the attempt that
\* produced its result; <<>> between attempts.
outputDirOfUnit(i) == w[i].outputDir

\* C11: no two distinct units ever work in the same output directory: the
\* output directories of the attempts of different units differ.
C11_OutputDirUnique ==
  \A i \in Units : \A j \in Units :
    i # j /\ outputDirOfUnit(i) # <<>> => outputDirOfUnit(i) # outputDirOfUnit(j)
\* The stage of a unit's life: Pending, Running, Succeeded or Failed (its
\* outcome is posted), Terminated ('exit' emitted).
Stage(pc) ==
  CASE pc = "idle" -> 0
    [] pc \in {"start", "backoff", "generate", "gbackoff"} -> 1
    [] pc = "posted" -> 2
    [] pc = "exited" -> 3

\* C12: a unit passes Pending, Running, Succeeded or Failed, Terminated in
\* that order, one stage at a time and never back; it holds its entry of the
\* workers map from its launch to its 'exit'; it has posted one outcome once
\* it has left Running and none before; and the tasks are launched in input
\* order, the position of the loop never going back to a launched task.
C12_UnitLifeCycle ==
  /\ [](proc = Running =>
          /\ workers = {i \in Units : Stage(w[i].pc) \in {1, 2}}
          /\ \A i \in Units :
               /\ Len(outcome[i]) = (IF Stage(w[i].pc) >= 2 THEN 1 ELSE 0)
               /\ Stage(w[i].pc) = 0 <=> i >= idx)
  /\ [][\A i \in Units :
          i \in Units'
            => /\ Stage(w'[i].pc) \in {Stage(w[i].pc), Stage(w[i].pc) + 1}
               /\ idx' \in {idx, idx + 1}]_vars

\* C12 witness: a unit has terminated after posting its outcome, and its
\* slot is free again.
C12_Witness_Terminated ==
  \E i \in Units :
    w[i].pc = "exited" /\ Len(outcome[i]) = 1 /\ i \notin workers /\ i < idx
\* C13: a unit is launched at least RATE_LIMIT_DELAY after the unit before
\* it, whether or not a slot was free; a launch happens only when the timer
\* of the loop has fired and a slot is free; and while no slot is free the
\* loop waits in timers of RATE_LIMIT_DELAY, each started when the one
\* before it has fired.
C13_DelayBetweenLaunches ==
  /\ [](proc = Running =>
          \A i \in Units :
            1 < i /\ i < idx
              => bars[i].startTime >= bars[i - 1].startTime + RATE_LIMIT_DELAY)
  /\ [][idx' = idx + 1
          => clock >= mwake /\ Cardinality(workers) < MAX_WORKERS]_vars
  /\ [][mpc = "loop" /\ mpc' = "loop" /\ idx' = idx /\ mwake' # mwake
          => /\ Cardinality(workers) >= MAX_WORKERS
             /\ clock >= mwake
             /\ mwake' = clock + RATE_LIMIT_DELAY]_vars

\* C13 witness: with MAX_WORKERS = 1 the second unit was launched two delays
\* or more after the first, the loop having polled for a free slot.
C13_Witness_LaunchedAfterPolling ==
  /\ MAX_WORKERS = 1
  /\ idx = 3
  /\ bars[2].startTime >= bars[1].startTime + 2 * RATE_LIMIT_DELAY

\* The number of words of a text: the places where a run of non-blank
\* characters starts.
WordCount(text) ==
  Cardinality({k \in 1..Len(text) :
                 text[k] # " " /\ (k = 1 \/ text[k - 1] = " ")})

EndsWithNJ(text) ==
  Len(text) >= 2 /\ text[Len(text) - 1] = "N" /\ text[Len(text)] = "J"

NotEndsWithNJ(text) == ~EndsWithNJ(text)

AcceptedText(text) == text # <<>> /\ WordCount(text) >= 2

\* The accepted phrases of urlset, in URL order: the texts of the URLs the
\* blog rule passed that are not empty and have two words or more.
Accepted == SelectSeq(acc.texts, AcceptedText)

\* The elements of a list.
Elements(xs) == {xs[k] : k \in 1..Len(xs)}

\* C14: keywords holds the accepted phrases that end with "NJ" and phrases
\* the other accepted phrases, both in URL order with one entry per accepted
\* URL; no text is in both lists, and no text of either has fewer than two
\* words.
C14_KeywordsAndPhrasesPartition ==
  acc.done =>
    /\ acc.keywords = SelectSeq(Accepted, EndsWithNJ)
    /\ acc.phrases = SelectSeq(Accepted, NotEndsWithNJ)
    /\ Len(acc.keywords) + Len(acc.phrases) = Len(Accepted)
    /\ Elements(acc.keywords) \cap Elements(acc.phrases) = {}
    /\ \A t \in Elements(acc.keywords) \cup Elements(acc.phrases) : WordCount(t) >= 2

\* C14 witness: a sitemap of two URLs gave one keyword and one phrase.
C14_Witness_OneOfEach ==
  acc.done /\ Len(urlset) = 2 /\ Len(acc.keywords) = 1 /\ Len(acc.phrases) = 1

(***************************************************************************)
(* The reference algorithm of the transformation, steps 2 to 5, written    *)
(* from its description and not from the code: it scans the text character *)
(* by character.                                                           *)
(***************************************************************************)
\* The position of the first "://" of a text, or 0.
SchemeEnd(text) ==
  LET at == {k \in 1..(Len(text) - 2) :
               text[k] = ":" /\ text[k + 1] = "/" /\ text[k + 2] = "/"}
  IN IF at = {} THEN 0 ELSE CHOOSE k \in at : \A h \in at : k <= h

\* Step 2a: the text after the scheme and the host, the host ending before
\* the first "/" that follows "://".
RefPath(url) ==
  IF SchemeEnd(url) = 0 THEN url
  ELSE LET rest == SubSeq(url, SchemeEnd(url) + 3, Len(url))
           slashes == {k \in 1..Len(rest) : rest[k] = "/"}
       IN IF slashes = {} THEN <<>>
          ELSE SubSeq(rest, CHOOSE k \in slashes : \A h \in slashes : k <= h,
                      Len(rest))

\* Step 2b: without one leading slash, one trailing slash, and then a
\* trailing ".html" or ".php".
RefStem(url) ==
  LET path == RefPath(url)
      a == IF Len(path) > 0 /\ path[1] = "/" THEN SubSeq(path, 2, Len(path)) ELSE path
      b == IF Len(a) > 0 /\ a[Len(a)] = "/" THEN SubSeq(a, 1, Len(a) - 1) ELSE a
      n == Len(b)
  IN IF n >= 5 /\ SubSeq(b, n - 4, n) = <<".","h","t","m","l">> THEN SubSeq(b, 1, n - 5)
     ELSE IF n >= 4 /\ SubSeq(b, n - 3, n) = <<".","p","h","p">> THEN SubSeq(b, 1, n - 4)
     ELSE b

\* Step 3: the tokens of a text, the maximal runs of characters that are
\* neither a hyphen nor a blank.
RECURSIVE RefTokens(_, _)
RefTokens(text, token) ==
  IF text = <<>>
  THEN (IF token = <<>> THEN <<>> ELSE <<token>>)
  ELSE IF Head(text) \in {"-", " "}
  THEN (IF token = <<>> THEN <<>> ELSE <<token>>) \o RefTokens(Tail(text), <<>>)
  ELSE RefTokens(Tail(text), Append(token, Head(text)))

\* Step 4: a token in title case; the last token, when it is "nj" in any
\* case, as "NJ".
RefCase(token, isLast) ==
  IF isLast /\ Len(token) = 2 /\ token[1] \in {"n", "N"} /\ token[2] \in {"j", "J"}
  THEN <<"N", "J">>
  ELSE [k \in 1..Len(token) |->
          IF k = 1 THEN UpperChar(token[k]) ELSE LowerChar(token[k])]

\* Step 5: the tokens joined with single blanks.
RECURSIVE RefJoin(_)
RefJoin(tokens) ==
  IF tokens = <<>> THEN <<>>
  ELSE IF Len(tokens) = 1 THEN tokens[1]
  ELSE tokens[1] \o <<" ">> \o RefJoin(Tail(tokens))

Reference(url) ==
  LET tokens == RefTokens(RefStem(url), <<>>)
  IN RefJoin([k \in 1..Len(tokens) |-> RefCase(tokens[k], k = Len(tokens))])

\* C15: the text the code makes of every URL that reaches the
\* transformation is the text of the reference algorithm; in particular
\* "plumbing-repair-nj.html" gives the keyword "Plumbing Repair NJ",
\* "emergency-plumber-nj/" the keyword "Emergency Plumber NJ", and "about"
\* is rejected.
C15_TransformationIsReference ==
  acc.done =>
    /\ \A k \in 1..Len(acc.kept) : acc.texts[k] = Reference(acc.kept[k])
    /\ urlset = <<XCom \o <<"/","p","l","u","m","b","i","n","g","-","r","e","p","a","i","r","-","n","j",".","h","t","m","l">>>> => acc.keywords = <<<<"P","l","u","m","b","i","n","g"," ","R","e","p","a","i","r"," ","N","J">>>> /\ acc.phrases = <<>>
    /\ urlset = <<XCom \o <<"/","e","m","e","r","g","e","n","c","y","-","p","l","u","m","b","e","r","-","n","j","/">>>> => acc.keywords = <<<<"E","m","e","r","g","e","n","c","y"," ","P","l","u","m","b","e","r"," ","N","J">>>> /\ acc.phrases = <<>>
    /\ urlset = <<XCom \o <<"/","a","b","o","u","t">>>> => acc.keywords = <<>> /\ acc.phrases = <<>>

\* The blog rule as described: the path, the part after scheme and host,
\* holds "blog" in any case.
PathHasBlog(url) == Contains(toLowerCase(RefPath(url)), <<"b","l","o","g">>)

\* C19: the blog rule rejects a loc value exactly when its path holds "blog"
\* in any case, whatever its host.
C19_BlogRuleByPathOnly ==
  acc.done =>
    \A k \in 1..Len(urlset) :
      urlset[k] \notin Elements(acc.kept) <=> PathHasBlog(urlset[k])

\* C16: while main runs, once the summary step has begun (its writes are
\* pending or done, or main has reported) every task has been launched,
\* every unit has emitted 'exit', the workers map is empty and results holds
\* the DomainResult of every unit that succeeded.
C16_SummaryAfterAllExits ==
  proc = Running /\ (mpc \in {"summary", "done"} \/ pending # {} \/ files # <<>>)
    => /\ idx > Len(sitemapUrls)
       /\ workers = {}
       /\ \A i \in Units : w[i].pc = "exited"
       /\ \A i \in Succeeded : \E k \in 1..Len(results) : results[k] = outcome[i][1]

\* C16 witness: a summary file is written, for a batch of two units of which
\* one at least succeeded.
C16_Witness_SummaryWritten ==
  proc = Running /\ files # <<>> /\ Len(sitemapUrls) = 2 /\ Succeeded # {}

\* The attempts of processSitemap unit i has started, while the unit runs
\* or has posted: the failed ones and the one in progress or returned.
Started(i) ==
  w[i].attempts
  + (IF w[i].pc \in {"generate", "gbackoff"} \/ (w[i].pc = "posted" /\ i \in Succeeded)
     THEN 1 ELSE 0)

\* C20 as stated: at most 3 fetches and 9 completion requests per unit, at
\* most 3 per attempt, and a unit that has posted a Success issued its last
\* completion request, if it issued one at all, in the attempt that returned.
C20_LastRequestInReturningAttempt ==
  \A i \in Units :
    /\ calls[i].fetches <= maxRetries
    /\ calls[i].completions <= maxRetries * generateMaxRetries
    /\ w[i].pc = "posted" /\ i \in Succeeded /\ calls[i].completions > 0
         => calls[i].lastIn = w[i].attempts + 1

\* C20, amended: at most 3 fetches and 9 completion requests per unit, at
\* most one fetch and 3 completion requests per attempt started, a fourth
\* request of an attempt never being due; and a unit that has posted a
\* Success with a processedKeyword other than "None" issued its last
\* completion request in the attempt that returned.
C20_BoundedExternalCalls ==
  \A i \in Units :
    /\ calls[i].fetches <= maxRetries
    /\ calls[i].completions <= maxRetries * generateMaxRetries
    /\ Stage(w[i].pc) \in {1, 2}
         => /\ calls[i].fetches <= Started(i)
            /\ calls[i].completions <= generateMaxRetries * Started(i)
    /\ w[i].pc \in {"generate", "gbackoff"} => w[i].gattempts < generateMaxRetries
    /\ w[i].pc = "posted" /\ i \in Succeeded /\ outcome[i][1].processedKeyword # None
         => calls[i].lastIn = w[i].attempts + 1

\* C20 witness: a unit has posted a Success with a keyword in its second or
\* third attempt, after an earlier attempt had issued a completion request.
C20_Witness_SuccessAfterEarlierRequests ==
  \E i \in Units :
    /\ w[i].pc = "posted"
    /\ i \in Succeeded
    /\ outcome[i][1].processedKeyword # None
    /\ w[i].attempts >= 1
    /\ calls[i].completions >= 2

\* Worker i takes a step: its position or its locals change.
Steps(i) == i \in Units /\ i \in DOMAIN w' /\ w'[i] # w[i]

\* The step of worker i posts a Success.
PostsSuccess(i) ==
  /\ Len(outcome'[i]) = Len(outcome[i]) + 1
  /\ IsSuccess(outcome'[i][Len(outcome'[i])])

\* The step of worker i is the catch block of processSitemap: one more
\* failed attempt, the locals of the try block gone, and either the backoff
\* timer or, at the ceiling, the Failure posted.
FailsAttempt(i) ==
  /\ w'[i].attempts = w[i].attempts + 1
  /\ w'[i].outputDir = <<>> /\ w'[i].timestamp = <<>>
  /\ w'[i].keywords = <<>> /\ w'[i].phrases = <<>>
  /\ w'[i].randomKeyword = None /\ w'[i].gattempts = 0
  /\ w'[i].files = <<>>
  /\ \/ w'[i].pc = "backoff" /\ w'[i].attempts < maxRetries /\ outcome'[i] = outcome[i]
     \/ /\ w'[i].pc = "posted" /\ w'[i].attempts = maxRetries
        /\ Len(outcome'[i]) = Len(outcome[i]) + 1
        /\ IsFailure(outcome'[i][Len(outcome'[i])])

\* The step of worker i went through lines 45-92 anew: a directory named by
\* the present clock reading, one fetch, the lists of one sitemap the fetch
\* can return, both lists written to the new directory and, when generation
\* starts, a keyword of the new list and a counter at 0.
RedoesEverything(i) ==
  LET u == w'[i]
  IN /\ u.timestamp = getTimestamp(clock)
     /\ u.outputDir = OutputDirOf(domainOf(i), getTimestamp(clock))
     /\ u.outputDir \in u.dirs
     /\ calls'[i].fetches = calls[i].fetches + 1
     /\ \E body \in Sitemaps :
          /\ u.keywords = classified[body].keywords
          /\ u.phrases = classified[body].phrases
     /\ KeywordsFile(u.outputDir, u.timestamp) \in DOMAIN u.files
     /\ u.files[KeywordsFile(u.outputDir, u.timestamp)] = join(u.keywords, NL)
     /\ PhrasesFile(u.outputDir, u.timestamp) \in DOMAIN u.files
     /\ u.files[PhrasesFile(u.outputDir, u.timestamp)] = join(u.phrases, NL)
     /\ u.pc = "generate"
          => /\ u.randomKeyword \in Elements(u.keywords)
             /\ u.gattempts = 0
             /\ calls'[i].completions = calls[i].completions
     /\ u.pc = "posted" => u.keywords = <<>> /\ u.randomKeyword = None

\* C17: the third failed completion request of generateArticle (like every
\* failure under generation) ends the attempt of processSitemap as one
\* failed attempt; and an attempt that gets past its fetch, the first or a
\* later one, has redone everything: new directory, fetch, parse,
\* classification, persistence, and, when there are keywords, a new pick
\* and a generateArticle counter at 0.
C17_ExhaustionFailsOneAttempt ==
  [][\A i \in Units :
       /\ Steps(i) /\ w[i].pc = "generate"
            => \/ PostsSuccess(i) /\ w'[i].attempts = w[i].attempts
               \/ FailsAttempt(i)
               \/ /\ w[i].gattempts < generateMaxRetries - 1
                  /\ w'[i] = [w[i] EXCEPT !.pc = "gbackoff", !.gattempts = @ + 1,
                                          !.wake = w'[i].wake]
       /\ Steps(i) /\ w[i].pc \in {"start", "backoff"} /\ w[i].attempts < maxRetries
            => \/ FailsAttempt(i)
               \/ w'[i].pc \in {"generate", "posted"} /\ RedoesEverything(i)]_vars

\* C17 witness: with the completion provider down, a unit whose first
\* attempt used up its three completion requests waits for the first
\* request of its second attempt.
C17_Witness_SecondAttemptAfterExhaustion ==
  \E i \in Units :
    /\ providerDown
    /\ w[i].pc = "generate"
    /\ w[i].attempts = 1
    /\ w[i].gattempts = 0
    /\ calls[i].fetches = 2
    /\ calls[i].completions = generateMaxRetries

\* C18: in both retry loops the n-th failure, n in {1, 2}, starts a timer
\* of RATE_LIMIT_DELAY * n and the next attempt starts only when it has
\* fired; the third failure starts no timer; and every completion request,
\* first or retry, is issued after a timer of RATE_LIMIT_DELAY started when
\* the attempt of generateArticle began.
C18_LinearBackoff ==
  [][\A i \in Units :
       Steps(i) /\ Stage(w[i].pc) = 1 =>
         /\ w'[i].attempts = w[i].attempts + 1
              => IF w'[i].attempts < maxRetries
                 THEN /\ w'[i].pc = "backoff"
                      /\ w'[i].wake = clock + RATE_LIMIT_DELAY * w'[i].attempts
                 ELSE w'[i].pc = "posted" /\ w'[i].wake = 0
         /\ w'[i].attempts = w[i].attempts /\ w'[i].gattempts # w[i].gattempts
              => /\ w'[i].gattempts = w[i].gattempts + 1
                 /\ w'[i].gattempts < generateMaxRetries
                 /\ w'[i].pc = "gbackoff"
                 /\ w'[i].wake = clock + RATE_LIMIT_DELAY * w'[i].gattempts
         /\ w[i].pc = "generate" /\ w[i].gattempts = generateMaxRetries - 1
              => w'[i].pc # "gbackoff"
         /\ w[i].pc # "generate" /\ w'[i].pc = "generate"
              => w'[i].wake = clock + RATE_LIMIT_DELAY
         /\ w[i].pc \in {"backoff", "gbackoff", "generate"} => clock >= w[i].wake
         /\ w[i].pc = "backoff" => w'[i].pc # "backoff" \/ w'[i].attempts > w[i].attempts
         /\ w[i].pc = "gbackoff" => w'[i].pc = "generate"
         /\ calls'[i].completions # calls[i].completions
              => w[i].pc = "generate" /\ clock >= w[i].wake]_vars

\* C18 witness: in its second attempt of processSitemap a unit has failed
\* its second completion request and sleeps twice the delay.
C18_Witness_SecondBackoffOfGenerate ==
  \E i \in Units :
    /\ w[i].pc = "gbackoff"
    /\ w[i].attempts = 1
    /\ w[i].gattempts = 2
    /\ w[i].wake = clock + RATE_LIMIT_DELAY * 2

====
